---- MODULE Spec2Model ----
(***************************************************************************)
(* Lifecycle controller of the Toast component                             *)
(* (src/src/components/Toaster/Toast/Toast.tsx): the status state machine  *)
(* of useToastStatus, the dismiss timer of useCloseOnTimeout, the height   *)
(* tracking of useHeight and the click handlers built by Toast and         *)
(* renderActions.                                                          *)
(*                                                                         *)
(* One instance is modelled.  A state update (setStatus, setHeight) is     *)
(* stored when its handler runs.  A passive effect (React.useEffect) is a  *)
(* deferred step: every render whose dependencies changed leaves an entry  *)
(* in pendingEffects holding the values that render closed over, and       *)
(* RunEffects later runs the oldest entry with those captured values.  An  *)
(* input event (click, pointer, animation end) or an unmount may be        *)
(* handled between a render and its deferred effects.                      *)
(* Time is discrete; deferred effects run before time advances, and a      *)
(* timer fires in the instant it becomes due.                              *)
(***************************************************************************)
EXTENDS Integers, Sequences, FiniteSets

VARIABLES
    allowAutoHiding,  \* props.allowAutoHiding after its default (line 220)
    timeout,          \* props.timeout: {} when not supplied, {n} otherwise
    isClosable,       \* props.isClosable after its default (line 220)
    actions,          \* props.actions: the removeAfterClick of each action
    isOverride,       \* props.isOverride after its default (line 220)
    status,           \* useToastStatus: the status state (line 140)
    pendingEffects,   \* renders whose passive effects have not run yet
    mounted,          \* the instance is mounted by its owner
    timerId,          \* useCloseOnTimeout: timerId.current, 0 = undefined
    timers,           \* timeouts pending in the runtime: [id, due]
    nextTimer,        \* the handle the next setTimeout returns
    height,           \* useHeight: the height state, {} = undefined
    renderedHeight,   \* ref.current.offsetHeight
    now,              \* the clock
    hovered,          \* the pointer is over the toast
    removeCount,      \* how many times props.removeCallback was invoked
    hideBy,           \* the origins that have called handleClose
    lastEvent         \* the event handled last

config == <<allowAutoHiding, timeout, isClosable, actions>>
vars == <<allowAutoHiding, timeout, isClosable, actions, isOverride, status,
          pendingEffects, mounted, timerId, timers, nextTimer, height,
          renderedHeight, now, hovered, removeCount, hideBy, lastEvent>>

----------------------------------------------------------------------------
(* Bounds of the model *)

MaxTime == 2
MaxTimeout == 1
MaxTimers == 2
MaxRemove == 2
MaxHeight == 1

----------------------------------------------------------------------------
(* Constants of the program *)

FADE_IN_LAST_ANIMATION_NAME == "move-left"
FADE_OUT_LAST_ANIMATION_NAME == "remove-height"
DEFAULT_TIMEOUT == 5000

creating == "creating"
showingIndents == "showing-indents"
showingHeight == "showing-height"
hiding == "hiding"
shown == "shown"
ToastStatus == {creating, showingIndents, showingHeight, hiding, shown}

\* The names an animation-completion signal can carry: the two the component
\* knows and one it does not.
AnimationNames ==
    {FADE_IN_LAST_ANIMATION_NAME, FADE_OUT_LAST_ANIMATION_NAME, "other"}

\* props.actions, each action given by its removeAfterClick: "omitted",
\* "true" or "false".
ActionLists == {<<>>, <<"omitted">>, <<"false">>, <<"true", "false">>}

Event(kind, arg) == [kind |-> kind, arg |-> arg]

----------------------------------------------------------------------------
(* useCloseOnTimeout *)

\* ToastTimeout without the test of allowAutoHiding.
ToastTimeout_IgnoresAllowAutoHiding ==
    IF timeout = {} \/ timeout = {0} THEN {DEFAULT_TIMEOUT} ELSE timeout

\* The timeout handed to useCloseOnTimeout: {} is undefined.
ToastTimeout ==
    IF allowAutoHiding
    THEN (IF timeout = {} \/ timeout = {0} THEN {DEFAULT_TIMEOUT} ELSE timeout)
    ELSE {}

TimerState(id, ts, nx) == [timerId |-> id, timers |-> ts, nextTimer |-> nx]

\* setTimer with a timeout that is due at once.
setTimer_NoDelay(tm) ==
    IF ToastTimeout = {} \/ ToastTimeout = {0}
    THEN tm
    ELSE TimerState(tm.nextTimer,
                    tm.timers \cup {[id |-> tm.nextTimer, due |-> now]},
                    tm.nextTimer + 1)

\* setTimer: nothing when the timeout is falsy, else a new timeout whose
\* handle overwrites timerId.current.
setTimer(tm) ==
    IF ToastTimeout = {} \/ ToastTimeout = {0}
    THEN tm
    ELSE LET d == CHOOSE n \in ToastTimeout : TRUE
         IN  TimerState(tm.nextTimer,
                        tm.timers \cup {[id |-> tm.nextTimer, due |-> now + d]},
                        tm.nextTimer + 1)

\* clearTimer that forgets the handle without clearTimeout.
clearTimer_KeepsTimeout(tm) == TimerState(0, tm.timers, tm.nextTimer)

\* clearTimer: clearTimeout on the stored handle, if any, and forget it.
clearTimer(tm) ==
    IF tm.timerId # 0
    THEN TimerState(0, {t \in tm.timers : t.id # tm.timerId}, tm.nextTimer)
    ELSE tm

CurrentTimers == TimerState(timerId, timers, nextTimer)

TimersBecome(tm) ==
    /\ timerId' = tm.timerId
    /\ timers' = tm.timers
    /\ nextTimer' = tm.nextTimer

----------------------------------------------------------------------------
(* useHeight *)

\* getToastHeight: ref.current?.offsetHeight; the ref is set once mounted.
getToastHeight == {renderedHeight}

\* The effects of useHeight measuring after mount only.
useHeightEffects_MountOnly(e) == "mount" \in e.deps

\* The two effects of useHeight measuring on every run, whatever changed.
useHeightEffects_EveryRender(e) == e.deps # {}

\* Whether the effects of useHeight, run for the render e, call setHeight:
\* the effect on [getToastHeight] runs on mount only, the effect on
\* [isOverride, getToastHeight] on mount and when isOverride changed, and
\* measures if the isOverride it saw is true.
useHeightEffects(e) ==
    \/ "mount" \in e.deps
    \/ "isOverride" \in e.deps /\ e.isOverride

----------------------------------------------------------------------------
(* useToastStatus *)

\* useToastStatusEffect with the two advances collapsed into one.
useToastStatusEffect_SkipsIndents(s) ==
    IF s = creating THEN {showingHeight} ELSE {}

\* The effect on [status], run for a render that saw s: the status it
\* stores, {} when it stores none.
useToastStatusEffect(s) ==
    IF s = creating THEN {showingIndents}
    ELSE IF s = showingIndents THEN {showingHeight}
    ELSE {}

\* onFadeInAnimationEnd without the comparison of the name.
onFadeInAnimationEnd_AnyName(name) == name \in AnimationNames

\* onFadeInAnimationEnd: whether the signal makes it call setStatus(shown).
onFadeInAnimationEnd(name) == name = FADE_IN_LAST_ANIMATION_NAME

\* onFadeOutAnimationEnd: whether the signal makes it call onRemove.
onFadeOutAnimationEnd(name) == name = FADE_OUT_LAST_ANIMATION_NAME

\* onAnimationEnd with the exit handler bound in every status but
\* showingHeight.
onAnimationEnd_ExitUnlessShowing(s) ==
    IF s = showingHeight THEN "onFadeInAnimationEnd"
    ELSE "onFadeOutAnimationEnd"

\* The handler bound to onAnimationEnd by a render that saw s.
onAnimationEnd(s) ==
    IF s = hiding THEN "onFadeOutAnimationEnd"
    ELSE IF s = showingHeight THEN "onFadeInAnimationEnd"
    ELSE "undefined"

\* handleClose storing the resting status.
handleClose_Shown == shown

\* handleClose: the status it stores.
handleClose == hiding

\* A render that saw status s, and the dependencies that changed in it.
Render(s, ov, deps) == [status |-> s, isOverride |-> ov, deps |-> deps]

\* setStatus(v) with pend the effects still pending: a new value re-renders,
\* and the new render's effect on [status] becomes pending.
SetStatus(v, pend) ==
    /\ status' = v
    /\ pendingEffects' =
          IF v # status THEN Append(pend, Render(v, isOverride, {"status"}))
          ELSE pend

----------------------------------------------------------------------------
(* renderActions *)

\* removeAfterClick with no default: an omitted value is falsy.
removeAfterClick_NoDefault(a) == a = "true"

\* The default of the destructuring: removeAfterClick = true.
removeAfterClick(a) == a # "false"

\* onActionClick calling onClose before onClick.
onActionClick_ClosesFirst(a, throws) == removeAfterClick(a)

\* onActionClick of an action with removeAfterClick a, whose onClick throws
\* or returns: whether onClose is called.  A throw of onClick ends the
\* handler before the test of removeAfterClick.
onActionClick(a, throws) == ~throws /\ removeAfterClick(a)

----------------------------------------------------------------------------
(* Toast *)

\* getStyles with the height left in place once shown.
getStyles_HeightWhenShown(st, h) ==
    [height |-> IF h # {} /\ h # {0} /\ st # showingIndents
                THEN h ELSE {},
     position |-> IF st # creating THEN "relative" ELSE "undefined"]

\* getStyles for status st and height h: {} and "undefined" are the
\* properties it leaves out; a height of undefined or 0 is falsy.
getStyles(st, h) ==
    [height |-> IF h # {} /\ h # {0} /\ st # showingIndents /\ st # shown
                THEN h ELSE {},
     position |-> IF st # creating THEN "relative" ELSE "undefined"]

\* getCloseButton rendering the button whatever isClosable is.
getCloseButton_Always == TRUE

\* getCloseButton: whether the close button is rendered.
getCloseButton == isClosable

----------------------------------------------------------------------------
(* The state after construction: the first render is committed, its effects
   are pending. *)

TimeoutProps == {{}} \cup {{n} : n \in 0..MaxTimeout}
Heights == 0..MaxHeight

InitRuntime ==
    /\ status = creating
    /\ pendingEffects = <<Render(creating, isOverride, {"mount"})>>
    /\ mounted = TRUE
    /\ timerId = 0
    /\ timers = {}
    /\ nextTimer = 1
    /\ height = {}
    /\ now = 0
    /\ hovered = FALSE
    /\ removeCount = 0
    /\ hideBy = {}
    /\ lastEvent = Event("mount", "")

Init ==
    /\ allowAutoHiding \in BOOLEAN
    /\ timeout \in TimeoutProps
    /\ isClosable \in BOOLEAN
    /\ actions \in ActionLists
    /\ isOverride \in BOOLEAN
    /\ renderedHeight \in Heights
    /\ InitRuntime

----------------------------------------------------------------------------
(* The deferred effects of the oldest pending render, in hook order:
   useToastStatus, useHeight (two effects), useCloseOnTimeout. *)

RunEffects ==
    /\ mounted
    /\ pendingEffects # <<>>
    /\ LET e == Head(pendingEffects)
           onMount == "mount" \in e.deps
           runStatus == onMount \/ "status" \in e.deps
           stored == IF runStatus THEN useToastStatusEffect(e.status) ELSE {}
       IN  /\ IF stored # {}
              THEN SetStatus(CHOOSE v \in stored : TRUE, Tail(pendingEffects))
              ELSE /\ pendingEffects' = Tail(pendingEffects)
                   /\ UNCHANGED status
           /\ height' = IF useHeightEffects(e) THEN getToastHeight ELSE height
           /\ IF onMount
              THEN TimersBecome(setTimer(CurrentTimers))
              ELSE UNCHANGED <<timerId, timers, nextTimer>>
    /\ lastEvent' = Event("effect",
                          IF useHeightEffects(Head(pendingEffects))
                             /\ "mount" \notin Head(pendingEffects).deps
                          THEN "remeasured" ELSE "")
    /\ UNCHANGED <<config, hovered, isOverride, mounted, renderedHeight, now,
                   removeCount, hideBy>>

(* An animation-completion signal reaches the handler the last render bound. *)
AnimationEnd(name) ==
    /\ mounted
    /\ LET handler == onAnimationEnd(status)
       IN  /\ IF handler = "onFadeInAnimationEnd" /\ onFadeInAnimationEnd(name)
              THEN SetStatus(shown, pendingEffects)
              ELSE UNCHANGED <<status, pendingEffects>>
           /\ IF handler = "onFadeOutAnimationEnd" /\ onFadeOutAnimationEnd(name)
              THEN /\ removeCount < MaxRemove
                   /\ removeCount' = removeCount + 1
              ELSE UNCHANGED removeCount
    /\ lastEvent' = Event("animationEnd", name)
    /\ UNCHANGED <<config, hovered, isOverride, mounted, timerId, timers, nextTimer,
                   height, renderedHeight, now, hideBy>>

(* A call of handleClose by origin. *)
HideRequest(origin) ==
    /\ SetStatus(handleClose, pendingEffects)
    /\ hideBy' = hideBy \cup {origin}

(* The close button, rendered only when isClosable, is clicked. *)
Close ==
    /\ mounted
    /\ getCloseButton
    /\ HideRequest("close")
    /\ lastEvent' = Event("close", "")
    /\ UNCHANGED <<config, hovered, isOverride, mounted, timerId, timers, nextTimer,
                   height, renderedHeight, now, removeCount>>

(* onActionClick of action i; onClick returns or throws. *)
ActionClick(i, throws) ==
    /\ mounted
    /\ i \in DOMAIN actions
    /\ IF onActionClick(actions[i], throws)
       THEN HideRequest("action")
       ELSE UNCHANGED <<status, pendingEffects, hideBy>>
    /\ lastEvent' = Event("action", IF throws THEN "threw" ELSE "returned")
    /\ UNCHANGED <<config, hovered, isOverride, mounted, timerId, timers, nextTimer,
                   height, renderedHeight, now, removeCount>>

(* A pending timeout becomes due and its callback runs onClose.  The update
   of an unmounted component is dropped. *)
TimerFire(t) ==
    /\ t \in timers
    /\ t.due <= now
    /\ timers' = timers \ {t}
    /\ IF mounted
       THEN HideRequest("timer")
       ELSE UNCHANGED <<status, pendingEffects, hideBy>>
    /\ lastEvent' = Event("timer", "")
    /\ UNCHANGED <<config, hovered, isOverride, mounted, timerId, nextTimer, height,
                   renderedHeight, now, removeCount>>

(* onMouseOver: the pointer enters the toast or moves onto a child of it. *)
MouseOver ==
    /\ mounted
    /\ TimersBecome(clearTimer(CurrentTimers))
    /\ hovered' = TRUE
    /\ lastEvent' = Event("mouseOver", "")
    /\ UNCHANGED <<config, isOverride, status, pendingEffects, mounted, height,
                   renderedHeight, now, removeCount, hideBy>>

(* onMouseLeave: the pointer leaves the toast.  The event is delivered
   whether or not onMouseOver was delivered before it. *)
MouseLeave ==
    /\ mounted
    /\ nextTimer <= MaxTimers
    /\ TimersBecome(setTimer(CurrentTimers))
    /\ hovered' = FALSE
    /\ lastEvent' = Event("mouseLeave", "")
    /\ UNCHANGED <<config, isOverride, status, pendingEffects, mounted, height,
                   renderedHeight, now, removeCount, hideBy>>

(* The owner discards the instance: the cleanup of the timer effect runs,
   the pending effects are dropped. *)
Unmount ==
    /\ mounted
    /\ mounted' = FALSE
    /\ TimersBecome(clearTimer(CurrentTimers))
    /\ pendingEffects' = <<>>
    /\ lastEvent' = Event("unmount", "")
    /\ UNCHANGED <<config, hovered, isOverride, status, height, renderedHeight, now,
                   removeCount, hideBy>>

(* The owner changes the isOverride prop: a render whose effect on
   [isOverride] becomes pending. *)
SetOverride(b) ==
    /\ mounted
    /\ b # isOverride
    /\ pendingEffects = <<>>
    /\ isOverride' = b
    /\ pendingEffects' = Append(pendingEffects, Render(status, b, {"isOverride"}))
    /\ lastEvent' = Event("setOverride", "")
    /\ UNCHANGED <<config, hovered, status, mounted, timerId, timers, nextTimer, height,
                   renderedHeight, now, removeCount, hideBy>>

(* The content changes size. *)
Resize(h) ==
    /\ mounted
    /\ h # renderedHeight
    /\ renderedHeight' = h
    /\ lastEvent' = Event("resize", "")
    /\ UNCHANGED <<config, hovered, isOverride, status, pendingEffects, mounted, timerId,
                   timers, nextTimer, height, now, removeCount, hideBy>>

(* Time advances by d, once the deferred effects have run and no timer is
   due. *)
Advance(d, end) ==
    /\ now < end
    /\ pendingEffects = <<>>
    /\ \A t \in timers : t.due > now
    /\ now' = now + d
    /\ lastEvent' = Event("tick", "")
    /\ UNCHANGED <<config, hovered, isOverride, status, pendingEffects, mounted, timerId,
                   timers, nextTimer, height, renderedHeight, removeCount,
                   hideBy>>

Tick == Advance(1, MaxTime)

Next ==
    \/ RunEffects
    \/ \E name \in AnimationNames : AnimationEnd(name)
    \/ Close
    \/ \E i \in 1..2, throws \in BOOLEAN : ActionClick(i, throws)
    \/ \E t \in timers : TimerFire(t)
    \/ MouseOver
    \/ MouseLeave
    \/ Unmount
    \/ \E b \in BOOLEAN : SetOverride(b)
    \/ \E h \in Heights : Resize(h)
    \/ Tick

Spec == Init /\ [][Next]_vars

----------------------------------------------------------------------------
(* The lifecycle alone: status, timer and callbacks of an instance whose
   isOverride keeps its default and whose content keeps its size.  Neither
   the status nor the timer code reads the height or isOverride. *)

InitLifecycle ==
    /\ Init
    /\ isOverride = FALSE
    /\ renderedHeight = MaxHeight

NextLifecycle ==
    \/ RunEffects
    \/ \E name \in AnimationNames : AnimationEnd(name)
    \/ Close
    \/ \E i \in 1..2, throws \in BOOLEAN : ActionClick(i, throws)
    \/ \E t \in timers : TimerFire(t)
    \/ MouseOver
    \/ MouseLeave
    \/ Unmount
    \/ Tick
SpecLifecycle == InitLifecycle /\ [][NextLifecycle]_vars

----------------------------------------------------------------------------
(* An auto-hiding toast nobody touches: no pointer event, no close, no
   action.  The owner discards the instance as soon as removeCallback has
   been invoked. *)

InitAuto ==
    /\ InitLifecycle
    /\ allowAutoHiding = TRUE

OwnerDiscards ==
    /\ removeCount > 0
    /\ Unmount

\* The owner has nothing to discard yet, or has discarded the instance.
Settled == ~(mounted /\ removeCount > 0)

NextAuto ==
    \/ OwnerDiscards
    \/ Settled /\ RunEffects
    \/ Settled /\ \E name \in AnimationNames : AnimationEnd(name)
    \/ Settled /\ \E t \in timers : TimerFire(t)
    \/ Settled /\ Tick

SpecAuto == InitAuto /\ [][NextAuto]_vars

----------------------------------------------------------------------------
(* The hover scenario: timeout 1000, mount at 0, pointer-enter at 900,
   pointer-leave at 1100, in steps of ScenarioStep time units. *)

ScenarioStep == 100
ScenarioTimeout == 10 * ScenarioStep
HoverEnterAt == 9 * ScenarioStep
HoverLeaveAt == 11 * ScenarioStep
ScenarioEnd == 23 * ScenarioStep

InitHover ==
    /\ allowAutoHiding = TRUE
    /\ timeout = {ScenarioTimeout}
    /\ isClosable \in BOOLEAN
    /\ actions \in ActionLists
    /\ isOverride = FALSE
    /\ renderedHeight = MaxHeight
    /\ InitRuntime

HoverEnter ==
    /\ now = HoverEnterAt
    /\ ~hovered
    /\ MouseOver

HoverLeave ==
    /\ now = HoverLeaveAt
    /\ hovered
    /\ MouseLeave

TickHover ==
    /\ now = HoverEnterAt => hovered
    /\ now = HoverLeaveAt => ~hovered
    /\ Advance(ScenarioStep, ScenarioEnd)

NextHover ==
    \/ RunEffects
    \/ \E name \in AnimationNames : AnimationEnd(name)
    \/ \E t \in timers : TimerFire(t)
    \/ HoverEnter
    \/ HoverLeave
    \/ TickHover

SpecHover == InitHover /\ [][NextHover]_vars

----------------------------------------------------------------------------
(* The height tracking: the actions the height can depend on, for an
   instance without auto-hiding (no timer is ever armed), closable, with
   one removing action. *)

InitHeight ==
    /\ allowAutoHiding = FALSE
    /\ timeout = {}
    /\ isClosable = TRUE
    /\ actions = <<"true">>
    /\ isOverride \in BOOLEAN
    /\ renderedHeight \in Heights
    /\ InitRuntime

NextHeight ==
    \/ RunEffects
    \/ \E name \in AnimationNames : AnimationEnd(name)
    \/ Close
    \/ \E i \in DOMAIN actions, throws \in BOOLEAN : ActionClick(i, throws)
    \/ \E b \in BOOLEAN : SetOverride(b)
    \/ \E h \in Heights : Resize(h)
    \/ Unmount

SpecHeight == InitHeight /\ [][NextHeight]_vars

(* Every action but the change of isOverride, which is left at its default
   for the whole life of an auto-hiding instance. *)

InitPlain ==
    /\ allowAutoHiding = TRUE
    /\ timeout = {MaxTimeout}
    /\ isClosable = TRUE
    /\ actions = <<"true">>
    /\ isOverride = FALSE
    /\ renderedHeight \in Heights
    /\ InitRuntime

NextPlain ==
    \/ NextLifecycle
    \/ \E h \in Heights : Resize(h)

SpecPlain == InitPlain /\ [][NextPlain]_vars

----------------------------------------------------------------------------
(* Claims *)

\* The order of the statuses of the appearing sequence.
Rank(s) ==
    IF s = creating THEN 0
    ELSE IF s = showingIndents THEN 1
    ELSE IF s = showingHeight THEN 2
    ELSE 3

\* A step from status a to status b does not move backward: hiding is left
\* by no step, and the other statuses only move up their order or to hiding.
Forward(a, b) ==
    \/ a = b
    \/ a # hiding /\ b = hiding
    \/ a # hiding /\ b # hiding /\ Rank(a) < Rank(b)

\* C1: the status never moves backward: once hiding, it never takes another
\* value (a pending deferred advance cannot move it to showingIndents or
\* showingHeight), and shown never returns to an earlier status.
C1_StatusNeverMovesBackward == [][Forward(status, status')]_vars

\* C2: removeCallback is invoked only while the status is hiding and only by
\* the handling of an animation-completion signal named 'remove-height'; no
\* other event invokes it, and it is not invoked in any other status.
C2_RemoveOnlyOnExitSignalInHiding ==
    [][removeCount' # removeCount =>
          /\ status = hiding
          /\ status' = hiding
          /\ lastEvent' = Event("animationEnd", FADE_OUT_LAST_ANIMATION_NAME)
          /\ removeCount' = removeCount + 1]_vars

C2_Witness ==
    /\ removeCount = 1
    /\ status = hiding
    /\ lastEvent = Event("animationEnd", FADE_OUT_LAST_ANIMATION_NAME)

\* C3: whatever events are delivered, two exit-animation signals in hiding
\* while still mounted included, removeCallback is invoked at most once.
C3_RemoveAtMostOnce == removeCount <= 1

\* The steps of the appearing sequence.
AppearingStep(a, b) ==
    \/ a = creating /\ b = showingIndents
    \/ a = showingIndents /\ b = showingHeight
    \/ a = showingHeight /\ b = shown

\* C4: as long as no hide request was made, the status only moves creating,
\* showingIndents, showingHeight, shown, one step at a time, and shown is
\* entered only from showingHeight by the handling of a 'move-left' signal.
C4_AppearingSequence ==
    [][(hideBy' = {} /\ status' # status) =>
          /\ AppearingStep(status, status')
          /\ status' = shown =>
                lastEvent' = Event("animationEnd", FADE_IN_LAST_ANIMATION_NAME)
          /\ status' # shown => lastEvent' = Event("effect", "")]_vars

C4_Witness ==
    /\ status = shown
    /\ hideBy = {}
    /\ lastEvent = Event("animationEnd", FADE_IN_LAST_ANIMATION_NAME)

\* The signal the status s waits for.
ExpectedSignal(s, name) ==
    \/ s = showingHeight /\ name = FADE_IN_LAST_ANIMATION_NAME
    \/ s = hiding /\ name = FADE_OUT_LAST_ANIMATION_NAME

\* C5: an animation-completion signal that is not the one the current status
\* waits for changes neither the status nor the number of removeCallback
\* invocations.
C5_UnexpectedSignalIsNoOp ==
    [][(lastEvent'.kind = "animationEnd"
            /\ ~ExpectedSignal(status, lastEvent'.arg)) =>
          /\ status' = status
          /\ removeCount' = removeCount]_vars

C5_Witness ==
    /\ status = showingHeight
    /\ lastEvent = Event("animationEnd", FADE_OUT_LAST_ANIMATION_NAME)
    /\ removeCount = 0

\* The timeout the claims speak of: the configured one, 5000 when none is
\* supplied.
ConfiguredTimeout ==
    IF timeout = {} THEN DEFAULT_TIMEOUT ELSE CHOOSE n \in timeout : TRUE

\* C6: an auto-hiding toast that gets no pointer event, close or action is
\* not hiding before `timeout` time units have passed since mount, is
\* hiding once the timer has fired, and, the owner discarding it on
\* removeCallback, has removeCallback invoked at most once and not before
\* `timeout`.
C6_AutoHideNotBeforeTimeout ==
    /\ status = hiding => (now >= ConfiguredTimeout /\ hideBy = {"timer"})
    /\ "timer" \in hideBy => status = hiding
    /\ removeCount <= 1
    /\ removeCount > 0 => (now >= ConfiguredTimeout /\ status = hiding)

C6_Witness ==
    /\ removeCount = 1
    /\ ~mounted
    /\ hideBy = {"timer"}
    /\ now = ConfiguredTimeout

\* C7: with allowAutoHiding = false no timer is ever armed, on mount or on
\* pointer-leave, so the status is hiding, and removeCallback was invoked,
\* only after a close request or the activation of a removing action.
C7_NoTimerWithoutAutoHiding ==
    ~allowAutoHiding =>
        /\ timers = {}
        /\ timerId = 0
        /\ "timer" \notin hideBy
        /\ (status = hiding \/ removeCount > 0) =>
              hideBy \cap {"close", "action"} # {}

C7_Witness ==
    /\ ~allowAutoHiding
    /\ lastEvent = Event("mouseLeave", "")
    /\ removeCount > 0

\* C8: in the hover scenario pointer-enter cancels the pending timer, which
\* never fires; pointer-leave arms one timer due a full timeout after the
\* leave; no hide is requested before 1100 + 1000 (so none at 1000), and
\* the status is hiding once that instant has passed.
C8_HoverRestartsFullTimeout ==
    /\ hovered => timers = {}
    /\ hideBy # {} => now >= HoverLeaveAt + ScenarioTimeout
    /\ now > HoverLeaveAt + ScenarioTimeout => status = hiding
    /\ (~hovered /\ now >= HoverLeaveAt /\ hideBy = {}) =>
          timers = {[id |-> timerId, due |-> HoverLeaveAt + ScenarioTimeout]}

C8_Witness ==
    /\ now = HoverLeaveAt + ScenarioTimeout
    /\ status = hiding
    /\ hideBy = {"timer"}

\* C9: whatever the order of mount, pointer-enter, pointer-leave and timer
\* firings, at most one dismiss timer is pending and the stored handle is
\* the handle of that timer.
C9_AtMostOneTimerPending ==
    /\ Cardinality(timers) <= 1
    /\ \A t \in timers : mounted => t.id = timerId

\* C10: after the instance is unmounted none of its dismiss timers is
\* pending, so no timer callback of it runs after destruction.
C10_NoTimerAfterUnmount ==
    ~mounted => (timers = {} /\ lastEvent.kind # "timer")

\* C11: the activation of an action whose onClick returns makes the status
\* hiding, by a hide request of the action, when its removeAfterClick is
\* omitted or true, and leaves the status as it was when it is false.
C11_ActionHidesUnlessRemoveAfterClickFalse ==
    [][\A i \in DOMAIN actions :
          ActionClick(i, FALSE) =>
             /\ lastEvent' = Event("action", "returned")
             /\ actions[i] \in {"omitted", "true"} =>
                   (status' = hiding /\ "action" \in hideBy')
             /\ actions[i] = "false" =>
                   (status' = status /\ hideBy' = hideBy)]_vars

C11_Witness ==
    /\ actions = <<"omitted">>
    /\ lastEvent = Event("action", "returned")
    /\ status = hiding
    /\ hideBy = {"action"}

\* C12: in every state the style is this function of the status: with a
\* measured non-zero height the explicit height is applied exactly in
\* showingHeight and hiding, it is never applied in creating, and the
\* non-default position is applied in every status but creating.
C12_StyleByStatus ==
    LET styles == getStyles(status, height)
    IN  /\ (height # {} /\ height # {0}) =>
              /\ status \in {showingHeight, hiding} => styles.height = height
              /\ status \in {creating, showingIndents, shown} =>
                    styles.height = {}
        /\ status = creating => styles.height = {}
        /\ styles.position = "relative" <=> status # creating

C12_Witness ==
    /\ mounted
    /\ status = hiding
    /\ height # {}
    /\ height # {0}

\* C13: an instance that is not closable never takes an explicit close: its
\* status is hiding only after a dismiss-timer expiry or the activation of
\* a removing action, and without auto-hiding and without a removing action
\* its status is never hiding.
C13_NotClosableNeverCloses ==
    ~isClosable =>
        /\ "close" \notin hideBy
        /\ lastEvent.kind # "close"
        /\ status = hiding => hideBy \cap {"timer", "action"} # {}
        /\ (~allowAutoHiding /\ \A i \in DOMAIN actions : actions[i] = "false")
              => (status # hiding /\ hideBy = {})

C13_Witness ==
    /\ ~isClosable
    /\ ~allowAutoHiding
    /\ status = hiding
    /\ hideBy = {"action"}

\* C14: the effects that run after mount measure the height; a change of
\* isOverride from false to true schedules effects with the new value, and
\* when they run the height is measured again and is the rendered height.
C14_MeasuredOnMountAndOnOverride ==
    [][/\ (RunEffects /\ "mount" \in Head(pendingEffects).deps)
             => (height = {} /\ height' = {renderedHeight})
       /\ (~isOverride /\ isOverride')
             => pendingEffects' = <<Render(status, TRUE, {"isOverride"})>>
       /\ (/\ RunEffects
           /\ "isOverride" \in Head(pendingEffects).deps
           /\ Head(pendingEffects).isOverride)
             => (isOverride /\ height' = {renderedHeight})]_vars

C14_Witness ==
    /\ lastEvent = Event("effect", "remeasured")
    /\ status = shown
    /\ isOverride
    /\ height = {MaxHeight}
    /\ renderedHeight = MaxHeight

\* C15: the status becomes showingHeight only by a deferred effect of a
\* render that had showingIndents stored and rendered: never from creating,
\* and never by the effect that stored showingIndents.
C15_ShowingHeightOnlyAfterIndentsRendered ==
    [][(status' = showingHeight /\ status # showingHeight) =>
          /\ status # creating
          /\ RunEffects
          /\ Head(pendingEffects).status = showingIndents
          /\ "mount" \notin Head(pendingEffects).deps]_vars

C15_Witness ==
    /\ status = showingHeight
    /\ lastEvent = Event("effect", "")
    /\ pendingEffects = <<Render(showingHeight, isOverride, {"status"})>>

\* C16: a hide request of any origin (the close button, a timer expiring on
\* a mounted instance, an action that removes and whose onClick returns)
\* makes the status hiding whatever it was, without invoking removeCallback;
\* issued in hiding it leaves the status and the pending effects as they are.
C16_HideRequestSameFromAnyOrigin ==
    [][(\/ Close
        \/ mounted /\ \E t \in timers : TimerFire(t)
        \/ \E i \in DOMAIN actions :
              actions[i] # "false" /\ ActionClick(i, FALSE))
          => /\ status' = hiding
             /\ removeCount' = removeCount
             /\ status = hiding => pendingEffects' = pendingEffects
             /\ status # hiding =>
                   pendingEffects' = Append(pendingEffects,
                                            Render(hiding, isOverride, {"status"}))]_vars

C16_Witness ==
    /\ lastEvent = Event("close", "")
    /\ hideBy = {"close", "timer", "action"}
    /\ status = hiding
    /\ pendingEffects = <<>>
    /\ removeCount = 0

\* C17: every timer armed while auto-hiding is allowed, on mount or on
\* pointer-leave, is due the configured timeout after the step that arms
\* it: the supplied value whatever it is (at once when it is zero), 5000
\* when none is supplied.
C17_ArmedForConfiguredTimeout ==
    [][\A t \in timers' \ timers :
          allowAutoHiding /\ t.due = now + ConfiguredTimeout]_vars

\* C18: while isOverride is true the tracked height follows the rendered
\* size, so when a toast at rest in shown, with isOverride true and no
\* effect pending, enters hiding, its tracked height, which the style then
\* applies, is the rendered height at that step.
C18_HeightFollowsSizeWhileOverride ==
    [][(/\ isOverride
        /\ pendingEffects = <<>>
        /\ status = shown
        /\ status' = hiding)
          => height' = {renderedHeight'}]_vars

\* C19: the activation of an action whose onClick throws issues no hide
\* request, whatever its removeAfterClick: the status, the pending effects
\* and the recorded hide requests are unchanged, and the activation ends by
\* the exception leaving the click handler.
C19_ThrowingActionDoesNotHide ==
    [][\A i \in DOMAIN actions :
          ActionClick(i, TRUE) =>
             /\ lastEvent' = Event("action", "threw")
             /\ status' = status
             /\ pendingEffects' = pendingEffects
             /\ hideBy' = hideBy
             /\ removeCount' = removeCount]_vars

C19_Witness ==
    /\ actions = <<"omitted">>
    /\ lastEvent = Event("action", "threw")
    /\ status = shown
    /\ hideBy = {}

\* C20: with isOverride false for the whole life of the instance, the
\* tracked height changes in one step only: the effects that run after
\* mount set it, from undefined, to the rendered height; no other step
\* changes it, whatever the rendered height has become.
C20_HeightSetOnceWithoutOverride ==
    [][height' # height =>
          /\ height = {}
          /\ height' = {renderedHeight}
          /\ RunEffects
          /\ "mount" \in Head(pendingEffects).deps]_vars

C20_Witness ==
    /\ ~isOverride
    /\ status = hiding
    /\ lastEvent = Event("timer", "")
    /\ hovered
    /\ height = {0}
    /\ renderedHeight = MaxHeight

====
